---- MODULE Spec2Model ----
(***************************************************************************)
(* Context-similarity features of nel (nel/features/context.py).           *)
(*                                                                         *)
(* Representation.                                                         *)
(*   - A term is a positive integer.  A token is a non-zero integer: k is  *)
(*     the lower-case spelling of term k and -k a spelling of it with      *)
(*     capitals, so that str.lower() is k |-> |k|.                         *)
(*   - A bag (Python dict term -> weight) is the sequence of its items     *)
(*     [t, w] in the dict's iteration order, with pairwise distinct terms. *)
(*   - Weights and vector entries are integers.  A float result is kept    *)
(*     exactly: [kind |-> "lit", num |-> n] is the number n, and           *)
(*     [kind |-> "cos", num |-> d, den2 |-> q] is 1 - d / sqrt(q).         *)
(*     kind "nan" is the float nan, kind "raise" an exception propagating  *)
(*     out of the call, kind "llm" one minus the mean of the values sims.  *)
(***************************************************************************)
EXTENDS Integers, Sequences, FiniteSets, TLC

\* feature  the class of the feature object (context.py:33-161)
\* ctx      self.ctx_model: the entity bag of every candidate id (line 37, 52)
\* cache    the entries of term_vector's lru_cache (line 96)
\* w2v      the calls of wordvec_model.word_to_vec made so far (line 98)
\* pc       where the driver is: "idle", "loaded" (a document taken up),
\*          "scored" (compute_doc_state returned), "raised" (it raised);
\*          "args" / "returned" when one function is called on its own
\* doc      the document: doc.text as tokens, doc.chains as lists of ids
\* run      the calls made by the last compute_doc_state (lines 62-68)
\* state    the map it returned, candidate_sim of compute (lines 68, 71)
\* ret      the last compute call and its value (line 71)
\* args     the arguments of a function called on its own
\* out      what that call returned and did
VARIABLES feature, ctx, cache, w2v, pc, doc, run, state, ret, args, out

vars == <<feature, ctx, cache, w2v, pc, doc, run, state, ret, args, out>>

\* ------------------------------------------------------------------ bounds
MaxWeight == 2
MaxStream == 2
MaxChains == 2
MaxBag == 150

\* ------------------------------------------------------- program constants
TopK == 100
BoWDefault == 1
DBoWDefault == 2
LLMEmpty == 1

\* ------------------------------------------------------------ float values
Lit(n) == [kind |-> "lit", num |-> n, den2 |-> 1, sims |-> <<>>]
Cos(d, q) == [kind |-> "cos", num |-> d, den2 |-> q, sims |-> <<>>]
NaN == [kind |-> "nan", num |-> 0, den2 |-> 0, sims |-> <<>>]
Raise == [kind |-> "raise", num |-> 0, den2 |-> 0, sims |-> <<>>]
\* 1 - (sims[1] + ... + sims[n]) / n, the result of the best-match loop
OneMinusMean(maxima, n) == [kind |-> "llm", num |-> 0, den2 |-> n, sims |-> maxima]

Min(x, y) == IF x < y THEN x ELSE y
Max(x, y) == IF x < y THEN y ELSE x
Abs(x) == IF x < 0 THEN -x ELSE x

RECURSIVE SumSeq(_)
SumSeq(s) == IF s = <<>> THEN 0 ELSE Head(s) + SumSeq(Tail(s))

\* --------------------------------------------------------------------- bags
It(term, weight) == [t |-> term, w |-> weight]
EmptyBag == <<>>
Keys(bag) == {bag[i].t : i \in 1..Len(bag)}
IsBag(bag) == \A i, j \in 1..Len(bag) : bag[i].t = bag[j].t => i = j

\* dict.get(index, default)
Get(bag, index, default) ==
    IF index \in Keys(bag)
    THEN bag[CHOOSE i \in 1..Len(bag) : bag[i].t = index].w
    ELSE default

\* sum(val * val for val in a.itervalues())
NormPlain(a) == SumSeq([i \in 1..Len(a) |-> a[i].w])
NormSq(a) == SumSeq([i \in 1..Len(a) |-> a[i].w * a[i].w])

\* sum(value * b.get(index, 0.0) for index, value in a.iteritems())
DotDefaultSelf(a, b) == SumSeq([i \in 1..Len(a) |-> a[i].w * Get(b, a[i].t, a[i].w)])
Dot(a, b) == SumSeq([i \in 1..Len(a) |-> a[i].w * Get(b, a[i].t, 0)])

\* The norms are taken before the swap; dividing by a zero float raises
\* ZeroDivisionError.
sparse_cosine_distance(a, b) ==
    LET a_sq2 == NormSq(a)
        b_sq2 == NormSq(b)
        swap == Len(b) < Len(a)
        a1 == IF swap THEN b ELSE a
        b1 == IF swap THEN a ELSE b
        cossim == Dot(a1, b1)
    IN  IF a_sq2 * b_sq2 = 0 THEN Raise ELSE Cos(cossim, a_sq2 * b_sq2)

\* ------------------------------------------------------------ dense vectors
\* A Python value handed to scipy's cosine: a dense vector vec / div, None,
\* or a dict (a bag).
PyVec(v, d) == [tag |-> "vec", vec |-> v, div |-> d, items |-> <<>>]
PyNone == [tag |-> "none", vec |-> <<>>, div |-> 1, items |-> <<>>]
PyDict(bag) == [tag |-> "dict", vec |-> <<>>, div |-> 1, items |-> bag]

\* self.wordvec_model.vector_size()
VecSize == 2
Zeros == [i \in 1..VecSize |-> 0]
DotV(u, v) == SumSeq([i \in 1..Len(u) |-> u[i] * v[i]])
Scale(v, k) == [i \in 1..Len(v) |-> v[i] * k]

\* scipy.spatial.distance.cosine: 1 - u.v / (|u| |v|).  A None or dict
\* argument becomes a one-element object array and the dot product raises;
\* a zero norm gives 0/0 = nan.  The scale 1/div of either side cancels.
dense_cosine_distance(u, v) ==
    IF u.tag # "vec" \/ v.tag # "vec" THEN Raise
    ELSE IF Len(u.vec) # Len(v.vec) THEN Raise
    ELSE LET q == DotV(u.vec, u.vec) * DotV(v.vec, v.vec)
         IN  IF q = 0 THEN NaN ELSE Cos(DotV(u.vec, v.vec), q)

\* WordVectors.word_to_vec: a fixed vector of vector_size() entries per term.
word_to_vec(t) == [i \in 1..VecSize |-> ((t + i) % 3) - 1]

\* The memoisation state of lru_cache(maxsize=None): cache is the sequence of
\* its entries [t, w, vec] in the order of insertion (nothing is ever
\* evicted), w2v the sequence of the keys [t, w] for which word_to_vec was
\* called, one element per call.
Key(t, weight) == [t |-> t, w |-> weight]
Cached(c, t, weight) == \E k \in 1..Len(c) : c[k].t = t /\ c[k].w = weight
Lookup(c, t, weight) == c[CHOOSE k \in 1..Len(c) : c[k].t = t /\ c[k].w = weight].vec

\* @lru_cache(maxsize=None) def term_vector(self, t, weight)
term_vector_uncached(st, t, weight) ==
    [st |-> [cache |-> st.cache, w2v |-> Append(st.w2v, Key(t, weight))],
     val |-> Scale(word_to_vec(t), weight)]
term_vector(st, t, weight) ==
    IF Cached(st.cache, t, weight)
    THEN [st |-> st, val |-> Lookup(st.cache, t, weight)]
    ELSE LET v == Scale(word_to_vec(t), weight)
         IN  [st |-> [cache |-> Append(st.cache, [t |-> t, w |-> weight, vec |-> v]),
                      w2v |-> Append(st.w2v, Key(t, weight))],
              val |-> v]

\* for t, weight in bow.iteritems(): yield self.term_vector(t, weight)
\* The items lo..hi are streamed in order, the memoisation state threaded
\* from each call to the next: the first half (l), then the second half (r)
\* from the state the first half left.
iter_one(r) == [val |-> <<r.val>>, st |-> r.st]
iter_join(l, r) == [val |-> l.val \o r.val, st |-> r.st]
RECURSIVE iter_range(_, _, _, _)
RECURSIVE iter_rest(_, _, _, _)
iter_range(st, bow, lo, hi) ==
    IF lo > hi THEN [val |-> <<>>, st |-> st]
    ELSE IF lo = hi THEN iter_one(term_vector(st, bow[lo].t, bow[lo].w))
    ELSE iter_rest(bow, (lo + hi) \div 2, hi, iter_range(st, bow, lo, (lo + hi) \div 2))
iter_rest(bow, mid, hi, l) == iter_join(l, iter_range(l.st, bow, mid + 1, hi))
iter_word_reps(st, bow) == iter_range(st, bow, 1, Len(bow))

\* AvgDBoWMentionContext.combine_representations: bow / num
RECURSIVE SumV(_)
SumV(wrs) == IF wrs = <<>> THEN Zeros
             ELSE LET r == SumV(Tail(wrs)) IN [i \in 1..VecSize |-> Head(wrs)[i] + r[i]]
Avg_combine_representations(wordreps) == PyVec(SumV(wordreps), Len(wordreps))

\* MaxDBoWMentionContext.combine_representations
RECURSIVE FoldMax(_, _)
FoldMax(wrs, max_bow) ==
    IF wrs = <<>> THEN max_bow
    ELSE FoldMax(Tail(wrs), [i \in 1..VecSize |-> Max(Head(wrs)[i], max_bow[i])])
RECURSIVE FoldMin(_, _)
FoldMin(wrs, min_bow) ==
    IF wrs = <<>> THEN min_bow
    ELSE FoldMin(Tail(wrs), [i \in 1..VecSize |-> Min(Head(wrs)[i], min_bow[i])])
PickGe(mx, mn) == IF Abs(mx) >= Abs(mn) THEN mx ELSE mn
Pick(mx, mn) == IF Abs(mx) > Abs(mn) THEN mx ELSE mn
Max_combine_representations(wordreps) ==
    LET max_bow == FoldMax(wordreps, Zeros)
        min_bow == FoldMin(wordreps, Zeros)
    IN  PyVec([i \in 1..VecSize |-> Pick(max_bow[i], min_bow[i])], 1)

Features == {"BoW", "AvgDBoW", "MaxDBoW", "LLMDBoW"}
\* The base class raises NotImplementedError; only the two pooled variants
\* reach combine_representations.
combine_representations(f, wordreps) ==
    CASE f = "AvgDBoW" -> Avg_combine_representations(wordreps)
      [] f = "MaxDBoW" -> Max_combine_representations(wordreps)
      [] OTHER -> PyNone

\* DBoWMentionContext.bow_to_dbow
pooled(f, bow, wordreps) ==
    [val |-> combine_representations(f, wordreps.val), st |-> wordreps.st, looked |-> bow]
bow_to_dbow(f, st, bow) ==
    IF Len(bow) = 0 THEN [val |-> PyNone, st |-> st, looked |-> <<>>]
    ELSE pooled(f, bow, iter_word_reps(st, bow))

\* ---------------------------------------------------------------- distances
\* What one distance call did: the memoisation state after it, its result,
\* the argument pairs it passed to sparse_cosine_distance and to scipy's
\* cosine, the bags it streamed through term_vector, and (LLM) the lists a, b.
Outcome(st, val, sparse, dense, looked, a, b) ==
    [st |-> st, val |-> val, sparse |-> sparse, dense |-> dense,
     looked |-> looked, a |-> a, b |-> b]

\* BoWMentionContext.distance
BoW_distance_unguarded(st, query, entity) ==
    Outcome(st, sparse_cosine_distance(query, entity),
            <<[a |-> query, b |-> entity]>>, <<>>, <<>>, <<>>, <<>>)
BoW_distance(st, query, entity) ==
    IF Len(query) = 0 \/ Len(entity) = 0
    THEN Outcome(st, Lit(BoWDefault), <<>>, <<>>, <<>>, <<>>, <<>>)
    ELSE Outcome(st, sparse_cosine_distance(query, entity),
                 <<[a |-> query, b |-> entity]>>, <<>>, <<>>, <<>>, <<>>)

\* DBoWMentionContext.distance (Avg and Max): no test of the null sentinel
\* query is pooled first, entity next, then the two are compared.
DBoW_compare(q, e) ==
    Outcome(e.st, dense_cosine_distance(q.val, e.val),
            <<>>, <<[u |-> q.val, v |-> e.val, wa |-> <<>>, wb |-> <<>>]>>,
            <<q.looked, e.looked>>, <<>>, <<>>)
DBoW_entity(f, entity, q) == DBoW_compare(q, bow_to_dbow(f, q.st, entity))
DBoW_distance(f, st, query, entity) == DBoW_entity(f, entity, bow_to_dbow(f, st, query))

\* x < y for floats x, y that are not nan; n / sqrt(d) < r is LtRoot(n, d, r)
LtRoot(n, d, r) ==
    IF r >= 0 THEN n < 0 \/ n * n < r * r * d
    ELSE n < 0 /\ n * n > r * r * d
GtRoot(n, d, r) ==
    IF r >= 0 THEN n >= 0 /\ n * n > r * r * d
    ELSE n >= 0 \/ n * n < r * r * d
LtRatio(n1, d1, n2, d2) ==
    CASE n1 < 0 /\ n2 >= 0 -> TRUE
      [] n1 >= 0 /\ n2 < 0 -> FALSE
      [] n1 >= 0 /\ n2 >= 0 -> n1 * n1 * d2 < n2 * n2 * d1
      [] OTHER -> n1 * n1 * d2 > n2 * n2 * d1
Gt(x, y) ==
    CASE x.kind = "lit" /\ y.kind = "lit" -> x.num > y.num
      [] x.kind = "cos" /\ y.kind = "lit" -> LtRoot(x.num, x.den2, 1 - y.num)
      [] x.kind = "lit" /\ y.kind = "cos" -> GtRoot(y.num, y.den2, 1 - x.num)
      [] x.kind = "cos" /\ y.kind = "cos" -> LtRatio(x.num, x.den2, y.num, y.den2)
      [] OTHER -> FALSE

\* sorted(bag.iteritems(), key=itemgetter(1), reverse=True): a stable sort by
\* descending weight, items of equal weight keep the order of the dict's
\* iteration: the items of the largest weight in their order, then those of
\* the next weight, and so on.
RECURSIVE SortedFrom(_, _)
SortedFrom(bag, ws) ==
    IF ws = {} THEN <<>>
    ELSE LET m == CHOOSE x \in ws : \A y \in ws : y <= x
             HasWeight(item) == item.w = m
         IN  SelectSeq(bag, HasWeight) \o SortedFrom(bag, ws \ {m})
SortedDesc(bag) == SortedFrom(bag, {bag[i].w : i \in 1..Len(bag)})
Untruncated(bag) == SortedDesc(bag)
\* dict(sorted(...)[:100])
TopItems(bag) == SubSeq(SortedDesc(bag), 1, Min(Len(bag), TopK))

\* for wa in a: sim = dense_cosine_distance(query, entity); keep the maximum
RECURSIVE LLM_inner(_, _, _, _, _, _, _)
RECURSIVE LLM_inner_sim(_, _, _, _, _, _, _, _)
LLM_inner(a, j, wb, query, entity, max_sim, log) ==
    IF j > Len(a) THEN [val |-> max_sim, log |-> log]
    ELSE LLM_inner_sim(a, j, wb, query, entity, max_sim,
                       Append(log, [u |-> query, v |-> entity, wa |-> a[j], wb |-> wb]),
                       dense_cosine_distance(query, entity))
LLM_inner_sim(a, j, wb, query, entity, max_sim, log, sim) ==
    IF sim.kind = "raise" THEN [val |-> Raise, log |-> log]
    ELSE LLM_inner(a, j + 1, wb, query, entity,
                   IF Gt(sim, max_sim) THEN sim ELSE max_sim, log)

\* for wb in b: max_sim = 0.0; ...; total += max_sim
RECURSIVE LLM_outer(_, _, _, _, _, _, _)
RECURSIVE LLM_outer_add(_, _, _, _, _, _, _)
LLM_outer(a, b, i, query, entity, maxima, log) ==
    IF i > Len(b) THEN [val |-> OneMinusMean(maxima, Len(b)), log |-> log]
    ELSE LLM_outer_add(a, b, i, query, entity, maxima,
                       LLM_inner(a, 1, b[i], query, entity, Lit(0), log))
LLM_outer_add(a, b, i, query, entity, maxima, r) ==
    IF r.val.kind = "raise" THEN r
    ELSE LLM_outer(a, b, i + 1, query, entity, Append(maxima, r.val), r.log)

\* LLMDBoWMentionContext.distance: the guard and the truncation (LLM_distance),
\* the two streams of word vectors (LLM_query, LLM_entity), the choice of a
\* and b and the loop (LLM_match).
SelectB(q_len, e_len, query_wrs, entity_wrs) == IF q_len > e_len THEN entity_wrs ELSE query_wrs
SelectA(q_len, e_len, query_wrs, entity_wrs) == IF e_len >= q_len THEN entity_wrs ELSE query_wrs
LLM_result(st, query, entity, a, b, r) ==
    Outcome(st, r.val, <<>>, r.log, <<query, entity>>, a, b)
LLM_loop(st, query, entity, a, b) ==
    LLM_result(st, query, entity, a, b,
               LLM_outer(a, b, 1, PyDict(query), PyDict(entity), <<>>, <<>>))
LLM_match(q_len, e_len, query, entity, query_wrs, entity_wrs) ==
    LLM_loop(entity_wrs.st, query, entity,
             SelectA(q_len, e_len, query_wrs.val, entity_wrs.val),
             SelectB(q_len, e_len, query_wrs.val, entity_wrs.val))
LLM_entity(q_len, e_len, query, entity, query_wrs) ==
    LLM_match(q_len, e_len, query, entity, query_wrs,
              iter_word_reps(query_wrs.st, entity))
LLM_query(st, q_len, e_len, query, entity) ==
    LLM_entity(q_len, e_len, query, entity, iter_word_reps(st, query))
LLM_distance(st, query, entity) ==
    IF Len(query) = 0 \/ Len(entity) = 0
    THEN Outcome(st, Lit(LLMEmpty), <<>>, <<>>, <<>>, <<>>, <<>>)
    ELSE LLM_query(st, Len(query), Len(entity), TopItems(query), TopItems(entity))

distance(f, st, query, entity) ==
    CASE f = "BoW" -> BoW_distance(st, query, entity)
      [] f = "LLMDBoW" -> LLM_distance(st, query, entity)
      [] OTHER -> DBoW_distance(f, st, query, entity)

\* --------------------------------------------------------- document scoring
Cands == {"X", "Y"}
SeqsUpTo(S, n) == UNION {[1..k -> S] : k \in 0..n}
Range(s) == {s[i] : i \in 1..Len(s)}
Perms(S) == {p \in [1..Cardinality(S) -> S] : Range(p) = S}

\* [t.lower() for t in tokens]
ngrams(tokens) == [i \in 1..Len(tokens) |-> Abs(tokens[i])]

\* EntityContext.get_bow over Counter(terms): one item per distinct term, in
\* the order of first occurrence, weighted by its count times a fixed
\* per-term factor.
Idf(t) == 1 + (t % 2)
get_bow(terms) ==
    LET first == {i \in 1..Len(terms) : \A j \in 1..(i - 1) : terms[j] # terms[i]}
        count(t) == Cardinality({i \in 1..Len(terms) : terms[i] = t})
        nth(k) == CHOOSE i \in first : Cardinality({j \in first : j < i}) = k - 1
    IN  [k \in 1..Cardinality(first) |-> It(terms[nth(k)], count(terms[nth(k)]) * Idf(terms[nth(k)]))]

\* BoWMentionContext.tokens_to_bow_vector
tokens_to_bow_vector(tokens) == get_bow(ngrams(tokens))

\* BoWMentionContext.get_entity_context_vec
get_entity_context_vec(model, entity) == model[entity]

\* set(c.id for chain in doc.chains for c in chain.candidates)
FirstChainOnly(d) == IF Len(d.chains) = 0 THEN {} ELSE Range(d.chains[1])
candidates_of(d) == UNION {Range(d.chains[k]) : k \in 1..Len(d.chains)}

\* {c: self.distance(doc_bow, entity_bow) for c, entity_bow in candidate_bows}
\* over the candidates in the order `order`; an exception ends the loop.
\* acc collects the calls made so far, r is what the next distance call did.
score_add(acc, c, r) ==
    [st |-> r.st, lookups |-> acc.lookups, bows |-> acc.bows,
     dists |-> Append(acc.dists, c),
     sparse |-> acc.sparse \o r.sparse,
     dense |-> acc.dense \o r.dense,
     looked |-> acc.looked \o r.looked,
     val |-> IF r.val.kind = "raise" THEN acc.val ELSE acc.val @@ (c :> r.val),
     raised |-> r.val.kind = "raise"]
RECURSIVE score_from(_, _, _, _, _, _)
RECURSIVE score_next(_, _, _, _, _, _)
score_from(f, model, doc_bow, order, i, acc) ==
    IF i > Len(order) THEN acc
    ELSE score_next(f, model, doc_bow, order, i,
                    score_add(acc, order[i],
                              distance(f, acc.st, doc_bow,
                                       get_entity_context_vec(model, order[i]))))
score_next(f, model, doc_bow, order, i, acc) ==
    IF acc.raised THEN acc ELSE score_from(f, model, doc_bow, order, i + 1, acc)

\* BoWMentionContext.compute_doc_state, inherited by every variant.  order is
\* the iteration order of the candidate set.
compute_doc_state(f, st, model, d, order) ==
    score_from(f, model, tokens_to_bow_vector(d.text), order, 1,
               [st |-> st, lookups |-> order, bows |-> 1, dists |-> <<>>,
                sparse |-> <<>>, dense |-> <<>>, looked |-> <<>>,
                val |-> <<>>, raised |-> FALSE])

\* BoWMentionContext.compute: candidate_sim[candidate.id]
compute(candidate_sim, candidate) ==
    IF candidate \in DOMAIN candidate_sim THEN candidate_sim[candidate] ELSE Raise

\* ------------------------------------------------------------------- inputs
EntityBags == {EmptyBag, <<It(1, 1)>>, <<It(2, 1), It(1, 2)>>}
Texts == {<<>>, <<-1>>, <<1, 2, -2>>}
Chains == {<<"X">>, <<"X", "Y">>, <<"Y", "X", "X">>}
Docs == [text : Texts, chains : SeqsUpTo(Chains, MaxChains)]

NoDoc == [text |-> <<>>, chains |-> <<>>]
NoRun == [lookups |-> <<>>, bows |-> 0, dists |-> <<>>, sparse |-> <<>>,
          dense |-> <<>>, looked |-> <<>>, raised |-> FALSE]
NoRet == [chain |-> 0, cand |-> "", val |-> Lit(0)]
NoArgs == [a |-> <<>>, b |-> <<>>, stream |-> <<>>]
NoOut == [val |-> Lit(0), a |-> <<>>, b |-> <<>>, looked |-> <<>>, dense |-> <<>>,
          vec |-> <<>>]

\* ------------------------------------------------- the feature-extraction pass
Init ==
    /\ feature \in Features
    /\ ctx \in [Cands -> EntityBags]
    /\ cache = <<>>
    /\ w2v = <<>>
    /\ pc = "idle"
    /\ doc = NoDoc
    /\ run = NoRun
    /\ state = <<>>
    /\ ret = NoRet
    /\ args = NoArgs
    /\ out = NoOut

\* The driver takes up the next document.
LoadDoc ==
    /\ pc = "idle"
    /\ doc' \in Docs
    /\ pc' = "loaded"
    /\ UNCHANGED <<feature, ctx, cache, w2v, run, state, ret, args, out>>

\* r is what compute_doc_state did and returned.
Returns(r) ==
    /\ cache' = r.st.cache
    /\ w2v' = r.st.w2v
    /\ run' = [lookups |-> r.lookups, bows |-> r.bows, dists |-> r.dists,
               sparse |-> r.sparse, dense |-> r.dense, looked |-> r.looked,
               raised |-> r.raised]
    /\ state' = IF r.raised THEN <<>> ELSE r.val
    /\ pc' = IF r.raised THEN "raised" ELSE "scored"

ComputeDocState ==
    /\ pc = "loaded"
    /\ \E order \in Perms(candidates_of(doc)) :
         Returns(compute_doc_state(feature, [cache |-> cache, w2v |-> w2v], ctx, doc, order))
    /\ UNCHANGED <<feature, ctx, doc, ret, args, out>>

Compute ==
    /\ pc = "scored"
    /\ \E k \in 1..Len(doc.chains) : \E j \in 1..Len(doc.chains[k]) :
         ret' = [chain |-> k, cand |-> doc.chains[k][j],
                 val |-> compute(state, doc.chains[k][j])]
    /\ UNCHANGED <<feature, ctx, cache, w2v, pc, doc, run, state, args, out>>

\* The driver is done with the document, scored or failed, and drops its
\* state; the feature object and its memoisation cache live on.
DropDoc ==
    /\ pc \in {"scored", "raised"}
    /\ pc' = "idle"
    /\ doc' = NoDoc
    /\ run' = NoRun
    /\ state' = <<>>
    /\ ret' = NoRet
    /\ UNCHANGED <<feature, ctx, cache, w2v, args, out>>

Next == LoadDoc \/ ComputeDocState \/ Compute \/ DropDoc

Spec == Init /\ [][Next]_vars

\* ------------------------------------------- sparse_cosine_distance on its own
SetToSeq(S) == [k \in 1..Cardinality(S) |-> CHOOSE x \in S : Cardinality({y \in S : y < x}) = k - 1]
Reverse(s) == [i \in 1..Len(s) |-> s[Len(s) + 1 - i]]
MkBag(S, wf, rev) ==
    LET asc == [k \in 1..Cardinality(S) |-> It(SetToSeq(S)[k], wf[SetToSeq(S)[k]])]
    IN  IF rev THEN Reverse(asc) ELSE asc
CosTerms == {1, 2, 3}
CosBags == {MkBag(S, wf, rev) : S \in SUBSET CosTerms, wf \in [CosTerms -> 0..MaxWeight],
                                rev \in BOOLEAN}

InitRest ==
    /\ ctx = [c \in Cands |-> EmptyBag]
    /\ cache = <<>>
    /\ w2v = <<>>
    /\ pc = "args"
    /\ doc = NoDoc
    /\ run = NoRun
    /\ state = <<>>
    /\ ret = NoRet
    /\ out = NoOut

InitCos ==
    /\ feature = "BoW"
    /\ args \in [a : CosBags, b : CosBags, stream : {<<>>}]
    /\ InitRest

CallSparse ==
    /\ pc = "args"
    /\ out' = [NoOut EXCEPT !.val = sparse_cosine_distance(args.a, args.b)]
    /\ pc' = "returned"
    /\ UNCHANGED <<feature, ctx, cache, w2v, doc, run, state, ret, args>>

NextCos == CallSparse

SpecCos == InitCos /\ [][NextCos]_vars

\* ------------------------- MaxDBoWMentionContext.combine_representations on its own
Entries == {-5, -1, 0, 1, 2, 3}
WordReps == [1..VecSize -> Entries]
Streams == UNION {[1..n -> WordReps] : n \in 1..MaxStream}

InitMax ==
    /\ feature = "MaxDBoW"
    /\ args \in [a : {<<>>}, b : {<<>>}, stream : Streams]
    /\ InitRest

CallCombine ==
    /\ pc = "args"
    /\ out' = [NoOut EXCEPT !.vec = combine_representations(feature, args.stream).vec]
    /\ pc' = "returned"
    /\ UNCHANGED <<feature, ctx, cache, w2v, doc, run, state, ret, args>>

NextMax == CallCombine

SpecMax == InitMax /\ [][NextMax]_vars

\* --------------------------------------- LLMDBoWMentionContext.distance on its own
\* A bag of n terms first+1 .. first+n whose weights cycle with step mult.
GenBag(n, first, mult) == [i \in 1..n |-> It(first + i, 1 + ((i * mult) % 5))]
LLMLens == {0, 1, 50, TopK - 1, TopK, TopK + 1, MaxBag}
LLMQueries == {GenBag(n, 0, m) : n \in LLMLens, m \in {1, 3}}
LLMEntities == {GenBag(n, 40, m) : n \in LLMLens, m \in {2, 5}}

InitLLM ==
    /\ feature = "LLMDBoW"
    /\ args \in [a : LLMQueries, b : LLMEntities, stream : {<<>>}]
    /\ InitRest

Distance(r) ==
    /\ out' = [NoOut EXCEPT !.val = r.val, !.a = r.a, !.b = r.b,
                            !.looked = r.looked, !.dense = r.dense]
    /\ cache' = r.st.cache
    /\ w2v' = r.st.w2v

CallDistance ==
    /\ pc = "args"
    /\ Distance(distance(feature, [cache |-> cache, w2v |-> w2v], args.a, args.b))
    /\ pc' = "returned"
    /\ UNCHANGED <<feature, ctx, doc, run, state, ret, args>>

NextLLM == CallDistance

SpecLLM == InitLLM /\ [][NextLLM]_vars

\* =================================================================== claims
\* Independent readings of the inputs, used by the properties below.
DocBow == tokens_to_bow_vector(doc.text)
AllCands == {c \in Cands : \E k \in 1..Len(doc.chains) : \E j \in 1..Len(doc.chains[k]) :
                                doc.chains[k][j] = c}
Count(s, x) == Cardinality({i \in 1..Len(s) : s[i] = x})
Scored == pc \in {"scored", "raised"}
EmptyCase(c) == Len(DocBow) = 0 \/ Len(ctx[c]) = 0

\* C1: one compute_doc_state call looks up every distinct candidate exactly
\* once, calls distance exactly once per distinct candidate and builds the
\* document bag exactly once; compute calls add nothing.
C1_ExactlyOncePerCandidate ==
    Scored =>
        /\ run.bows = 1
        /\ \A c \in AllCands : Count(run.lookups, c) = 1 /\ Count(run.dists, c) = 1
        /\ Len(run.lookups) = Cardinality(AllCands)
        /\ Len(run.dists) = Cardinality(AllCands)

\* C2: a returned state has exactly the distinct candidates of the document
\* as keys, every compute of a chain's candidate is a lookup that succeeds
\* and returns the stored distance, and compute leaves the state unchanged.
C2_StateCoversCandidates ==
    [][/\ pc' = "scored" =>
            /\ DOMAIN state' = AllCands'
            /\ \A c \in AllCands' : compute(state', c).kind # "raise"
            /\ ret'.chain > 0 => /\ ret'.cand \in DOMAIN state'
                                 /\ ret'.val = state'[ret'.cand]
       /\ (pc = "scored" /\ pc' = "scored") => state' = state]_vars
C2_Witness ==
    /\ pc = "scored"
    /\ Len(doc.chains) = 2
    /\ Cardinality(AllCands) = 2
    /\ \E c \in AllCands : \A k \in 1..2 : c \in Range(doc.chains[k])
    /\ ret.chain = 2

\* C3: for Avg-DBoW and Max-DBoW an empty document bag or entity bag gives
\* that candidate the default distance 2.0, scipy's cosine is never called on
\* the null representation and the pass is not aborted.
C3_PooledDefaultOnEmpty ==
    (Scored /\ feature \in {"AvgDBoW", "MaxDBoW"}) =>
        /\ \A k \in 1..Len(run.dense) :
               run.dense[k].u.tag # "none" /\ run.dense[k].v.tag # "none"
        /\ (\E c \in AllCands : EmptyCase(c)) => pc = "scored"
        /\ \A c \in AllCands : (pc = "scored" /\ EmptyCase(c)) => state[c] = Lit(2)

\* C4: for BoW and LLM-DBoW an empty document bag or entity bag gives the
\* distance 1.0 with no call of sparse_cosine_distance (BoW) and no word
\* vector lookup or dense cosine call (LLM); with both bags non-empty the
\* underlying computation is invoked.
NonEmptyCalls == Cardinality({i \in 1..Len(run.dists) : ~EmptyCase(run.dists[i])})
C4_EmptyBagGuard ==
    (Scored /\ feature \in {"BoW", "LLMDBoW"}) =>
        /\ feature = "BoW" =>
            /\ Len(run.sparse) = NonEmptyCalls
            /\ \A k \in 1..Len(run.sparse) :
                   Len(run.sparse[k].a) > 0 /\ Len(run.sparse[k].b) > 0
            /\ run.dense = <<>> /\ run.looked = <<>>
        /\ feature = "LLMDBoW" =>
            /\ run.sparse = <<>>
            /\ Len(run.looked) = 2 * NonEmptyCalls
            /\ \A k \in 1..Len(run.looked) : Len(run.looked[k]) > 0
            /\ (NonEmptyCalls = 0) <=> (run.dense = <<>>)
        /\ \A c \in AllCands : (pc = "scored" /\ EmptyCase(c)) => state[c] = Lit(1)
        /\ (pc = "scored" /\ ret.chain > 0) =>
               (EmptyCase(ret.cand) => ret.val = Lit(1))
C4_Witness ==
    /\ pc = "scored"
    /\ feature = "BoW"
    /\ Len(DocBow) > 0
    /\ \E c \in AllCands : Len(ctx[c]) > 0
    /\ Len(run.sparse) = 1
    /\ ret.chain > 0
    /\ Len(ctx[ret.cand]) = 0
    /\ ret.val = Lit(1)

\* C10: the term-vector cache only grows across documents, an entry once
\* inserted is never removed or changed, term_vector returns word_to_vec(t)
\* scaled by the weight from the cache as from the model, and word_to_vec is
\* called at most once per (term, weight) pair.
KeysSeen == {1, 2} \X (1..MaxWeight)
C10_CacheAppendOnly ==
    [][/\ Len(cache') >= Len(cache)
       /\ \A k \in 1..Len(cache) : cache'[k] = cache[k]
       /\ \A k \in 1..Len(cache') :
              cache'[k].vec = Scale(word_to_vec(cache'[k].t), cache'[k].w)
       /\ \A k \in 1..Len(w2v') : Count(w2v', w2v'[k]) = 1
       /\ \A key \in KeysSeen :
              term_vector([cache |-> cache', w2v |-> w2v'], key[1], key[2]).val
                  = Scale(word_to_vec(key[1]), key[2])]_vars
C10_Witness ==
    /\ pc = "scored"
    /\ Len(run.looked) >= 4
    /\ \E i, j \in 1..Len(run.looked) : i < j /\ run.looked[i] = run.looked[j]
                                       /\ Len(run.looked[i]) = 2
    /\ Len(cache) >= 3
    /\ Len(w2v) = Len(cache)

\* ------------------------------------------------------------------ SpecCos
SumSq(a) == SumSeq([i \in 1..Len(a) |-> a[i].w * a[i].w])
Support(a) == {a[i].t : i \in {i \in 1..Len(a) : a[i].w # 0}}
Weight(a, t) == Get(a, t, 0)
Inner(a, b) == SumSeq([i \in 1..Len(a) |-> a[i].w * Weight(b, a[i].t)])
Proportional(a, b) ==
    \A s, t \in Support(a) \cup Support(b) :
        Weight(a, s) * Weight(b, t) = Weight(a, t) * Weight(b, s)
Returned == pc = "returned"

\* C5: sparse_cosine_distance(a, b) = sparse_cosine_distance(b, a) for
\* non-empty maps; the dot product and the norm product do not depend on
\* which map is iterated.
C5_Commutative ==
    (Returned /\ Len(args.a) > 0 /\ Len(args.b) > 0) =>
        /\ out.val = sparse_cosine_distance(args.b, args.a)
        /\ out.val.kind = "cos" =>
               /\ out.val.num = Inner(args.a, args.b)
               /\ out.val.num = Inner(args.b, args.a)
C5_Witness ==
    /\ Returned
    /\ Len(args.b) < Len(args.a)
    /\ Support(args.a) \cap Support(args.b) # {}
    /\ Support(args.b) \ Support(args.a) # {}
    /\ out.val.kind = "cos"
    /\ out.val.num > 0

\* C9: with non-negative weights and non-zero norms the distance is in
\* [0, 2]: 0 <= dot and dot^2 <= |a|^2 |b|^2; it is 0 exactly when the
\* supports are equal and the weights proportional.
C9_RangeAndZero ==
    (Returned /\ Len(args.a) > 0 /\ Len(args.b) > 0
              /\ SumSq(args.a) > 0 /\ SumSq(args.b) > 0) =>
        /\ out.val.kind = "cos"
        /\ out.val.den2 = SumSq(args.a) * SumSq(args.b)
        /\ out.val.num >= 0
        /\ out.val.num * out.val.num <= out.val.den2
        /\ (out.val.num * out.val.num = out.val.den2)
               <=> (Support(args.a) = Support(args.b) /\ Proportional(args.a, args.b))
C9_Witness ==
    /\ Returned
    /\ Len(args.a) = 2
    /\ Support(args.a) = Support(args.b)
    /\ Cardinality(Support(args.a)) = 2
    /\ args.a # args.b
    /\ Weight(args.a, 1) # Weight(args.b, 1)
    /\ out.val.kind = "cos"
    /\ out.val.num * out.val.num = out.val.den2

\* ------------------------------------------------------------------ SpecMax
ColumnOf(stream, i) == {stream[k][i] : k \in 1..Len(stream)}
TrueMax(S) == CHOOSE x \in S : \A y \in S : y <= x
TrueMin(S) == CHOOSE x \in S : \A y \in S : x <= y

\* C8: the combined vector keeps, per dimension, the maximum of the stream's
\* entries when its absolute value is strictly larger than that of the
\* minimum of the stream's entries, and the minimum otherwise.
C8_EnvelopePooling ==
    Returned =>
        /\ Len(out.vec) = VecSize
        /\ \A i \in 1..VecSize :
               LET mx == TrueMax(ColumnOf(args.stream, i))
                   mn == TrueMin(ColumnOf(args.stream, i))
               IN  out.vec[i] = IF Abs(mx) > Abs(mn) THEN mx ELSE mn
C8_Witness ==
    /\ Returned
    /\ args.stream = <<<<3, -5>>, <<1, 2>>>>
    /\ out.vec = <<3, -5>>

\* ------------------------------------------------------------------ SpecLLM
\* C6: with both bags non-empty every inner comparison is the dense cosine
\* of the word vectors wa and wb, one per pair, and the result is one minus
\* the mean over b of the per-wb maxima.
C6_PairwiseWordVectors ==
    (Returned /\ Len(args.a) > 0 /\ Len(args.b) > 0) =>
        /\ Len(out.dense) = Len(out.a) * Len(out.b)
        /\ \A k \in 1..Len(out.dense) :
               /\ out.dense[k].u.tag = "vec" /\ out.dense[k].v.tag = "vec"
               /\ {out.dense[k].u.vec, out.dense[k].v.vec}
                      = {out.dense[k].wa, out.dense[k].wb}
        /\ out.val.kind = "llm"
        /\ Len(out.val.sims) = Len(out.b)
        /\ out.val.den2 = Len(out.b)

\* C7: each bag is cut to its TopK highest-weight terms (a bag of at most
\* TopK terms is used whole, nothing outside the top TopK is looked up) and
\* b is the shorter list after truncation, a the longer.
TopOf(bag, top) ==
    /\ Len(top) = Min(Len(bag), TopK)
    /\ IsBag(top)
    /\ Range(top) \subseteq Range(bag)
    /\ \A x \in Range(bag) \ Range(top) : \A y \in Range(top) : y.w >= x.w
C7_TopKAndShorterSide ==
    (Returned /\ Len(args.a) > 0 /\ Len(args.b) > 0) =>
        /\ Len(out.looked) = 2
        /\ TopOf(args.a, out.looked[1])
        /\ TopOf(args.b, out.looked[2])
        /\ \A k \in 1..Len(w2v) :
               w2v[k] \in Range(out.looked[1]) \cup Range(out.looked[2])
        /\ Len(out.b) = Min(Min(Len(args.a), TopK), Min(Len(args.b), TopK))
        /\ Len(out.a) = Max(Min(Len(args.a), TopK), Min(Len(args.b), TopK))
C7_Witness ==
    /\ Returned
    /\ Len(args.a) = MaxBag
    /\ Len(args.b) = 50
    /\ Len(out.looked[1]) = TopK
    /\ Len(out.b) = 50
    /\ Len(out.a) = TopK

====
